---- MODULE Spec2Model ----
(***************************************************************************)
(* Farm Analytics (src/modsac_1.py): geolocation, three climate fetches,   *)
(* table construction, extreme-event counting and the farmer report.       *)
(*                                                                         *)
(* Numbers are integers in the source's units (deg C, mm, m3/s).  A report *)
(* is the list the source joins with "\n"; each line is a record with the  *)
(* line's kind (tag), its text argument (txt) and its numeric arguments    *)
(* (a, b).  Values printed with ":.1f" are carried in tenths.              *)
(***************************************************************************)
EXTENDS Integers, Sequences, FiniteSets, TLC

VARIABLES pc, use_auto_loc, loc, manual_entry, lat, lon, region, outcome, attempted,
          weather_data, forecast_data, flood_data,
          weather_df, forecast_df, extremes, report, reportCalls

vars == <<pc, use_auto_loc, loc, manual_entry, lat, lon, region, outcome, attempted,
          weather_data, forecast_data, flood_data,
          weather_df, forecast_df, extremes, report, reportCalls>>

----------------------------------------------------------------------------
(* Bounds *)

MaxDays == 1
MaxRows == 3
MaxCropRows == 2
MaxDischarge == 2

----------------------------------------------------------------------------
(* Generic helpers *)

RECURSIVE SumSeq(_)
SumSeq(s) == IF s = <<>> THEN 0 ELSE Head(s) + SumSeq(Tail(s))

RECURSIVE MaxSeq(_)
MaxSeq(s) ==
    IF Len(s) = 1 THEN s[1]
    ELSE LET m == MaxSeq(Tail(s)) IN IF s[1] > m THEN s[1] ELSE m

SeqsUpTo(S, n) == UNION {[1..k -> S] : k \in 0..n}

\* format(x, ".1f") of x = num / den (num >= 0, den > 0), in tenths:
\* round to nearest, ties to even.
Format1f(num, den) ==
    LET q == (10 * num) \div den
        r == (10 * num) % den
    IN  IF 2 * r > den THEN q + 1
        ELSE IF 2 * r < den THEN q
        ELSE IF q % 2 = 0 THEN q ELSE q + 1

Line(tag, txt, a, b) == [tag |-> tag, txt |-> txt, a |-> a, b |-> b]

----------------------------------------------------------------------------
(* pandas DataFrame: None, or a mapping from column name to column values *)

NoneDF == [isNone |-> TRUE, data |-> [c \in {} |-> <<>>]]

DF(data) == [isNone |-> FALSE, data |-> data]

Columns(df) == DOMAIN df.data

NRows(df) == IF Columns(df) = {} THEN 0
             ELSE Len(df.data[CHOOSE c \in Columns(df) : TRUE])

\* df.empty: some axis has length 0
Empty(df) == Columns(df) = {} \/ NRows(df) = 0

WeatherTable(tmax, rain) ==
    DF([c \in {"date", "tmax", "tmin", "rain"} |->
          CASE c = "date" -> [i \in 1..Len(tmax) |-> i]
            [] c = "tmax" -> tmax
            [] c = "tmin" -> [i \in 1..Len(tmax) |-> 0]
            [] c = "rain" -> rain])

----------------------------------------------------------------------------
(* analyze_extremes *)

HEATWAVE_TMAX == 40
DROUGHT_RAIN == 1
HEAVY_RAIN == 100

\* variant: the boundary day counted as a heatwave day
IsHeatwaveInclusive(t) == t >= HEATWAVE_TMAX

IsHeatwave(t) == t > HEATWAVE_TMAX
IsDrought(r) == r < DROUGHT_RAIN
IsHeavyRain(r) == r > HEAVY_RAIN

ExtremesDict(h, d, f) ==
    [k \in {"heatwave_days", "drought_days", "flood_days"} |->
        CASE k = "heatwave_days" -> h
          [] k = "drought_days" -> d
          [] k = "flood_days" -> f]

analyze_extremes(df) ==
    IF ~df.isNone /\ ~Empty(df) /\ "tmax" \in Columns(df) /\ "rain" \in Columns(df)
    THEN LET tmax == df.data["tmax"]
             rain == df.data["rain"]
         IN  ExtremesDict(Cardinality({i \in 1..Len(tmax) : IsHeatwave(tmax[i])}),
                          Cardinality({i \in 1..Len(rain) : IsDrought(rain[i])}),
                          Cardinality({i \in 1..Len(rain) : IsHeavyRain(rain[i])}))
    ELSE ExtremesDict(0, 0, 0)

----------------------------------------------------------------------------
(* JSON payloads as returned by resp.json(), and None *)

Num(v) == [num |-> TRUE, v |-> v]
Null == [num |-> FALSE, v |-> 0]

List(items) == [isList |-> TRUE, items |-> items]
Scalar == [isList |-> FALSE, items |-> <<>>]

NumList(s) == List([i \in 1..Len(s) |-> Num(s[i])])

Dict(data) == [isDict |-> TRUE, data |-> data]
NotADict == [isDict |-> FALSE, data |-> [k \in {} |-> Scalar]]

NonePayload == [isNone |-> TRUE, keys |-> {}, error |-> "", daily |-> NotADict]

\* a JSON object with the given top-level keys
Payload(keys, error, daily) ==
    [isNone |-> FALSE, keys |-> keys, error |-> error, daily |-> daily]

EmptyPayload == Payload({}, "", NotADict)

\* Python truthiness of "None or a dict"
Truthy(p) == ~p.isNone /\ p.keys # {}

Values(arr) == [i \in 1..Len(arr.items) |-> arr.items[i].v]

----------------------------------------------------------------------------
(* generate_report *)

HIGH_DISCHARGE == 5000
MODERATE_DISCHARGE == 2000
RICE_RAIN == 5
RICE_TMAX == 25
DROUGHT_NOTE == 10
HEAT_NOTE == 3
DRAINAGE_NOTE == 2

Get(d, k) == IF k \in DOMAIN d THEN d[k] ELSE 0

\* s.mean() > k for a non-empty column of integers
MeanGT(s, k) == SumSeq(s) > k * Len(s)

Header(rgn, start_date, end_date) ==
    << Line("title", "", 0, 0),
       Line("region", rgn, 0, 0),
       Line("period", "", start_date, end_date) >>

HistorySection(df) ==
    IF ~df.isNone /\ ~Empty(df)
    THEN << Line("history_title", "", 0, 0),
            Line("history_avg_temp", "",
                 Format1f(SumSeq(df.data["tmax"]), NRows(df)), 0),
            Line("history_total_rain", "", 10 * SumSeq(df.data["rain"]), 0) >>
    ELSE <<>>

ForecastSection(df) ==
    IF ~df.isNone /\ ~Empty(df)
    THEN << Line("forecast_title", "", 0, 0),
            Line("forecast_avg_temp", "",
                 Format1f(SumSeq(df.data["tmax"]), NRows(df)), 0),
            Line("forecast_total_rain", "", 10 * SumSeq(df.data["rain"]), 0) >>
    ELSE <<>>

ExtremesSection(ex) ==
    << Line("extremes_title", "", 0, 0),
       Line("heatwave_days", "", Get(ex, "heatwave_days"), 0),
       Line("drought_days", "", Get(ex, "drought_days"), 0),
       Line("heavy_rain_days", "", Get(ex, "flood_days"), 0) >>

\* the statements of the try block that can raise:
\* flood_data["daily"]["river_discharge"], sum(...) / len(...), max(...)
DischargeRaises(fd) ==
    \/ ~fd.daily.isDict
    \/ "river_discharge" \notin DOMAIN fd.daily.data
    \/ LET arr == fd.daily.data["river_discharge"]
       IN  \/ ~arr.isList
           \/ \E i \in 1..Len(arr.items) : ~arr.items[i].num
           \/ Len(arr.items) = 0

\* variant: both thresholds inclusive
FloodTierInclusive(max_discharge) ==
    IF max_discharge >= HIGH_DISCHARGE THEN "flood_high"
    ELSE IF max_discharge >= MODERATE_DISCHARGE THEN "flood_moderate"
    ELSE "flood_none"

FloodTier(max_discharge) ==
    IF max_discharge > HIGH_DISCHARGE THEN "flood_high"
    ELSE IF max_discharge > MODERATE_DISCHARGE THEN "flood_moderate"
    ELSE "flood_none"

\* variant: the section title appended before the values are aggregated
FloodSectionTitleFirst(fd) ==
    IF Truthy(fd) /\ "daily" \in fd.keys
    THEN IF DischargeRaises(fd)
         THEN << Line("flood_title", "", 0, 0), Line("flood_unavailable", "", 0, 0) >>
         ELSE LET discharge_vals == Values(fd.daily.data["river_discharge"])
                  max_discharge == MaxSeq(discharge_vals)
              IN  << Line("flood_title", "", 0, 0),
                     Line("flood_avg", "",
                          Format1f(SumSeq(discharge_vals), Len(discharge_vals)), 0),
                     Line("flood_max", "", 10 * max_discharge, 0),
                     Line(FloodTier(max_discharge), "", 0, 0),
                     Line("blank", "", 0, 0) >>
    ELSE <<>>

FloodSection(fd) ==
    IF Truthy(fd) /\ "daily" \in fd.keys
    THEN IF DischargeRaises(fd)
         THEN << Line("flood_unavailable", "", 0, 0) >>
         ELSE LET discharge_vals == Values(fd.daily.data["river_discharge"])
                  max_discharge == MaxSeq(discharge_vals)
              IN  << Line("flood_title", "", 0, 0),
                     Line("flood_avg", "",
                          Format1f(SumSeq(discharge_vals), Len(discharge_vals)), 0),
                     Line("flood_max", "", 10 * max_discharge, 0),
                     Line(FloodTier(max_discharge), "", 0, 0),
                     Line("blank", "", 0, 0) >>
    ELSE <<>>

\* variant: both comparisons inclusive
rec_crop_inclusive(df) ==
    IF SumSeq(df.data["rain"]) >= RICE_RAIN * Len(df.data["rain"])
       /\ SumSeq(df.data["tmax"]) >= RICE_TMAX * Len(df.data["tmax"])
    THEN "Rice" ELSE "Wheat"

rec_crop(df) ==
    IF MeanGT(df.data["rain"], RICE_RAIN) /\ MeanGT(df.data["tmax"], RICE_TMAX)
    THEN "Rice" ELSE "Wheat"

CropSection(df) ==
    IF ~df.isNone /\ ~Empty(df)
    THEN << Line("crop", rec_crop(df), 0, 0) >>
    ELSE <<>>

IrrigationNote(ex) ==
    IF Get(ex, "drought_days") > DROUGHT_NOTE
    THEN << Line("advice_irrigation", "", 0, 0) >> ELSE <<>>

\* variant: inclusive threshold
HeatNoteInclusive(ex) ==
    IF Get(ex, "heatwave_days") >= HEAT_NOTE
    THEN << Line("advice_heat", "", 0, 0) >> ELSE <<>>

HeatNote(ex) ==
    IF Get(ex, "heatwave_days") > HEAT_NOTE
    THEN << Line("advice_heat", "", 0, 0) >> ELSE <<>>

DrainageNote(ex) ==
    IF Get(ex, "flood_days") > DRAINAGE_NOTE
    THEN << Line("advice_drainage", "", 0, 0) >> ELSE <<>>

\* variant: the crop recommendation placed before the flood section
generate_report_crop_first(rgn, start_date, end_date, wdf, fdf, ex, fd) ==
    Header(rgn, start_date, end_date)
      \o HistorySection(wdf)
      \o ForecastSection(fdf)
      \o ExtremesSection(ex)
      \o CropSection(wdf)
      \o FloodSection(fd)
      \o IrrigationNote(ex) \o HeatNote(ex) \o DrainageNote(ex)

generate_report(rgn, start_date, end_date, wdf, fdf, ex, fd) ==
    Header(rgn, start_date, end_date)
      \o HistorySection(wdf)
      \o ForecastSection(fdf)
      \o ExtremesSection(ex)
      \o FloodSection(fd)
      \o CropSection(wdf)
      \o IrrigationNote(ex) \o HeatNote(ex) \o DrainageNote(ex)

----------------------------------------------------------------------------
(* HTTP responses seen by requests.get: an exception (timeout), or a status *)
(* with a body that parses as JSON or does not                              *)

Response(exc, status, json_ok, body) ==
    [exc |-> exc, status |-> status, json_ok |-> json_ok, body |-> body]

Failures(none) ==
    { Response("timeout", 0, FALSE, none),
      Response("none", 404, FALSE, none),
      Response("none", 500, FALSE, none),
      Response("none", 200, FALSE, none) }

\* resp.raise_for_status()
RaisesForStatus(resp) == resp.status >= 400 /\ resp.status < 600

\* the class of a response, for the record of what each fetch met
Kind(resp) ==
    IF resp.exc # "none" THEN "timeout"
    ELSE IF resp.status = 404 THEN "not_found"
    ELSE IF RaisesForStatus(resp) THEN "http_error"
    ELSE IF ~resp.json_ok THEN "bad_json"
    ELSE "ok"

----------------------------------------------------------------------------
(* get_user_location and the location selection *)

GeoLats == {0, 28}
GeoLons == {0, 77}
GeoCities == {"Pune", ""}

DEFAULT_LAT == 28
DEFAULT_LON == 77
ManualCoords == {<<DEFAULT_LAT, DEFAULT_LON>>, <<12, 80>>}

Unresolved == [resolved |-> FALSE, lat |-> 0, lon |-> 0, city |-> ""]

GeoBody(keys, la, lo, city) ==
    [keys |-> keys, latitude |-> la, longitude |-> lo, city |-> city]

NoGeoBody == GeoBody({}, 0, 0, "")

GeoResponses ==
    Failures(NoGeoBody)
      \cup { Response("none", 200, TRUE, GeoBody({"city"}, 0, 0, "Pune")) }
      \cup { Response("none", 200, TRUE, GeoBody({"latitude", "longitude", "city"}, la, lo, c)) :
               la \in GeoLats, lo \in GeoLons, c \in GeoCities }
      \cup { Response("none", 200, TRUE, GeoBody({"latitude", "longitude"}, la, lo, "")) :
               la \in GeoLats, lo \in GeoLons }

get_user_location(res) ==
    IF res.exc # "none" THEN Unresolved
    ELSE IF res.status = 200
         THEN IF ~res.json_ok
                 \/ "latitude" \notin res.body.keys
                 \/ "longitude" \notin res.body.keys
              THEN Unresolved
              ELSE [resolved |-> TRUE,
                    lat |-> res.body.latitude,
                    lon |-> res.body.longitude,
                    city |-> IF "city" \in res.body.keys THEN res.body.city
                             ELSE "Unknown"]
         ELSE Unresolved

\* Python truthiness of "lat and lon": None and 0 are both false
LatAndLon(l) == l.resolved /\ l.lat # 0 /\ l.lon # 0

----------------------------------------------------------------------------
(* fetch_weather, fetch_forecast, fetch_flood *)

NO_MODEL == "No flood model available for this region"

fetch_weather(resp) ==
    IF resp.exc # "none" \/ RaisesForStatus(resp) \/ ~resp.json_ok
    THEN NonePayload
    ELSE resp.body

fetch_forecast(resp) ==
    IF resp.exc # "none" \/ RaisesForStatus(resp) \/ ~resp.json_ok
    THEN NonePayload
    ELSE resp.body

\* variant: no special case for 404
fetch_flood_generic(resp) ==
    IF resp.exc # "none"
    THEN Payload({"error"}, "Flood API failed: timeout", NotADict)
    ELSE IF RaisesForStatus(resp)
    THEN Payload({"error"}, "Flood API failed: HTTPError", NotADict)
    ELSE IF ~resp.json_ok
    THEN Payload({"error"}, "Flood API failed: JSONDecodeError", NotADict)
    ELSE resp.body

fetch_flood(resp) ==
    IF resp.exc # "none"
    THEN Payload({"error"}, "Flood API failed: timeout", NotADict)
    ELSE IF resp.status = 404
    THEN Payload({"error"}, NO_MODEL, NotADict)
    ELSE IF RaisesForStatus(resp)
    THEN Payload({"error"}, "Flood API failed: HTTPError", NotADict)
    ELSE IF ~resp.json_ok
    THEN Payload({"error"}, "Flood API failed: JSONDecodeError", NotADict)
    ELSE resp.body

----------------------------------------------------------------------------
(* Response bodies of the three endpoints *)

WeatherKeys == {"time", "temperature_2m_max", "temperature_2m_min", "precipitation_sum"}
FloodKeys == {"time", "river_discharge"}

RunTmax == {20, 41}
RunRain == {0, 120}
RunDischarge == {Num(100), Num(5200), Null}

Days(n) == NumList([i \in 1..n |-> i])

WeatherDaily(tmax, rain) ==
    [k \in WeatherKeys |->
        CASE k = "time" -> Days(Len(tmax))
          [] k = "temperature_2m_max" -> NumList(tmax)
          [] k = "temperature_2m_min" -> NumList([i \in 1..Len(tmax) |-> 0])
          [] k = "precipitation_sum" -> NumList(rain)]

FloodDaily(items) ==
    [k \in FloodKeys |->
        CASE k = "time" -> Days(Len(items))
          [] k = "river_discharge" -> List(items)]

\* a daily object without the field k
Without(d, k) == [j \in (DOMAIN d) \ {k} |-> d[j]]

\* a daily object whose field k is one entry shorter than the others
Shorter(d, k) ==
    [d EXCEPT ![k] = List(SubSeq(d[k].items, 1, Len(d[k].items) - 1))]

Malformed(d) ==
    { Without(d, k) : k \in DOMAIN d }
      \cup { Shorter(d, k) : k \in {j \in DOMAIN d : Len(d[j].items) > 0} }

WellFormedWeather ==
    UNION { { WeatherDaily(t, r) : t \in [1..n -> RunTmax], r \in [1..n -> RunRain] } :
              n \in 0..MaxDays }

WellFormedFlood ==
    { FloodDaily(items) : items \in SeqsUpTo(RunDischarge, MaxDays) }

Bodies(wellFormed) ==
    { EmptyPayload,
      Payload({"latitude"}, "", NotADict),
      Payload({"latitude", "daily"}, "", NotADict) }
      \cup { Payload({"latitude", "daily"}, "", Dict(d)) : d \in wellFormed }
      \cup { Payload({"latitude", "daily"}, "", Dict(m)) :
               m \in UNION { Malformed(d) : d \in wellFormed } }

Responses(wellFormed) ==
    Failures(NonePayload)
      \cup { Response("none", 200, TRUE, b) : b \in Bodies(wellFormed) }

----------------------------------------------------------------------------
(* pd.DataFrame({...}) over payload["daily"] *)

\* payload["daily"][k] for each k, then arrays of one length
FrameRaises(p, keys) ==
    \/ "daily" \notin p.keys
    \/ ~p.daily.isDict
    \/ \E k \in keys : k \notin DOMAIN p.daily.data
    \/ \E j, k \in keys : Len(p.daily.data[j].items) # Len(p.daily.data[k].items)

WeatherFrame(p) ==
    DF([c \in {"date", "tmax", "tmin", "rain"} |->
          CASE c = "date" -> Values(p.daily.data["time"])
            [] c = "tmax" -> Values(p.daily.data["temperature_2m_max"])
            [] c = "tmin" -> Values(p.daily.data["temperature_2m_min"])
            [] c = "rain" -> Values(p.daily.data["precipitation_sum"])])

----------------------------------------------------------------------------
(* The Streamlit script, one run *)

START_DATE == 0
END_DATE == 365

Fetches == {"weather", "forecast", "flood"}

NoDict == [k \in {} |-> 0]

Call(f) == [fetch |-> f, lat |-> lat, lon |-> lon]

Init ==
    /\ pc = "start"
    /\ use_auto_loc = FALSE
    /\ loc = Unresolved
    /\ manual_entry = FALSE
    /\ lat = 0
    /\ lon = 0
    /\ region = "My Farm"
    /\ outcome = [f \in Fetches |-> "pending"]
    /\ attempted = {}
    /\ weather_data = NonePayload
    /\ forecast_data = NonePayload
    /\ flood_data = NonePayload
    /\ weather_df = NoneDF
    /\ forecast_df = NoneDF
    /\ extremes = NoDict
    /\ report = <<>>
    /\ reportCalls = 0

\* checkbox ticked: get_user_location(), then "if lat and lon"
LocateAuto ==
    /\ pc = "start"
    /\ \E res \in GeoResponses, m \in ManualCoords :
         LET l == get_user_location(res)
         IN  /\ use_auto_loc' = TRUE
             /\ loc' = l
             /\ IF LatAndLon(l)
                THEN /\ lat' = l.lat
                     /\ lon' = l.lon
                     /\ region' = IF l.city # "" THEN l.city ELSE region
                     /\ manual_entry' = FALSE
                ELSE /\ lat' = m[1]
                     /\ lon' = m[2]
                     /\ region' = region
                     /\ manual_entry' = TRUE
    /\ pc' = "idle"
    /\ UNCHANGED <<outcome, attempted, weather_data, forecast_data, flood_data,
                   weather_df, forecast_df, extremes, report, reportCalls>>

\* checkbox not ticked: the two number inputs
LocateManual ==
    /\ pc = "start"
    /\ \E m \in ManualCoords : lat' = m[1] /\ lon' = m[2]
    /\ manual_entry' = TRUE
    /\ pc' = "idle"
    /\ UNCHANGED <<use_auto_loc, loc, region, outcome, attempted, weather_data,
                   forecast_data, flood_data, weather_df, forecast_df, extremes,
                   report, reportCalls>>

\* st.button("Run Full Analysis")
RunFullAnalysis ==
    /\ pc = "idle"
    /\ pc' = "fetch_weather"
    /\ UNCHANGED <<use_auto_loc, loc, manual_entry, lat, lon, region, outcome,
                   attempted, weather_data, forecast_data, flood_data, weather_df,
                   forecast_df, extremes, report, reportCalls>>

FetchWeather ==
    /\ pc = "fetch_weather"
    /\ \E resp \in Responses(WellFormedWeather) :
         /\ weather_data' = fetch_weather(resp)
         /\ outcome' = [outcome EXCEPT !["weather"] = Kind(resp)]
    /\ attempted' = attempted \cup {Call("weather")}
    /\ weather_df' = NoneDF
    /\ pc' = "weather_table"
    /\ UNCHANGED <<use_auto_loc, loc, manual_entry, lat, lon, region, forecast_data,
                   flood_data, forecast_df, extremes, report, reportCalls>>

\* "if weather_data:" and the construction of weather_df; an exception raised
\* here is caught nowhere and ends the script
BuildWeatherTable ==
    /\ pc = "weather_table"
    /\ IF Truthy(weather_data)
       THEN IF FrameRaises(weather_data, WeatherKeys)
            THEN pc' = "aborted" /\ UNCHANGED weather_df
            ELSE pc' = "fetch_forecast" /\ weather_df' = WeatherFrame(weather_data)
       ELSE pc' = "fetch_forecast" /\ UNCHANGED weather_df
    /\ UNCHANGED <<use_auto_loc, loc, manual_entry, lat, lon, region, outcome,
                   attempted, weather_data, forecast_data, flood_data, forecast_df,
                   extremes, report, reportCalls>>

FetchForecast ==
    /\ pc = "fetch_forecast"
    /\ \E resp \in Responses(WellFormedWeather) :
         /\ forecast_data' = fetch_forecast(resp)
         /\ outcome' = [outcome EXCEPT !["forecast"] = Kind(resp)]
    /\ attempted' = attempted \cup {Call("forecast")}
    /\ forecast_df' = NoneDF
    /\ pc' = "forecast_table"
    /\ UNCHANGED <<use_auto_loc, loc, manual_entry, lat, lon, region, weather_data,
                   flood_data, weather_df, extremes, report, reportCalls>>

BuildForecastTable ==
    /\ pc = "forecast_table"
    /\ IF Truthy(forecast_data)
       THEN IF FrameRaises(forecast_data, WeatherKeys)
            THEN pc' = "aborted" /\ UNCHANGED forecast_df
            ELSE pc' = "extremes" /\ forecast_df' = WeatherFrame(forecast_data)
       ELSE pc' = "extremes" /\ UNCHANGED forecast_df
    /\ UNCHANGED <<use_auto_loc, loc, manual_entry, lat, lon, region, outcome,
                   attempted, weather_data, forecast_data, flood_data, weather_df,
                   extremes, report, reportCalls>>

AnalyzeExtremes ==
    /\ pc = "extremes"
    /\ extremes' = analyze_extremes(weather_df)
    /\ pc' = "fetch_flood"
    /\ UNCHANGED <<use_auto_loc, loc, manual_entry, lat, lon, region, outcome,
                   attempted, weather_data, forecast_data, flood_data, weather_df,
                   forecast_df, report, reportCalls>>

FetchFlood ==
    /\ pc = "fetch_flood"
    /\ \E resp \in Responses(WellFormedFlood) :
         /\ flood_data' = fetch_flood(resp)
         /\ outcome' = [outcome EXCEPT !["flood"] = Kind(resp)]
    /\ attempted' = attempted \cup {Call("flood")}
    /\ pc' = "flood_table"
    /\ UNCHANGED <<use_auto_loc, loc, manual_entry, lat, lon, region, weather_data,
                   forecast_data, weather_df, forecast_df, extremes, report,
                   reportCalls>>

\* 'if "error" in flood_data' and the construction of flood_df
BuildFloodTable ==
    /\ pc = "flood_table"
    /\ IF "error" \in flood_data.keys
       THEN pc' = "report"
       ELSE IF FrameRaises(flood_data, FloodKeys)
            THEN pc' = "aborted"
            ELSE pc' = "report"
    /\ UNCHANGED <<use_auto_loc, loc, manual_entry, lat, lon, region, outcome,
                   attempted, weather_data, forecast_data, flood_data, weather_df,
                   forecast_df, extremes, report, reportCalls>>

GenerateReport ==
    /\ pc = "report"
    /\ report' = generate_report(region, START_DATE, END_DATE, weather_df,
                                 forecast_df, extremes, flood_data)
    /\ reportCalls' = reportCalls + 1
    /\ pc' = "done"
    /\ UNCHANGED <<use_auto_loc, loc, manual_entry, lat, lon, region, outcome,
                   attempted, weather_data, forecast_data, flood_data, weather_df,
                   forecast_df, extremes>>

Next ==
    \/ LocateAuto
    \/ LocateManual
    \/ RunFullAnalysis
    \/ FetchWeather
    \/ BuildWeatherTable
    \/ FetchForecast
    \/ BuildForecastTable
    \/ AnalyzeExtremes
    \/ FetchFlood
    \/ BuildFloodTable
    \/ GenerateReport

Spec == Init /\ [][Next]_vars

----------------------------------------------------------------------------
(* analyze_extremes over every table of bounded size *)

ClassifyTmax == {40, 41}
ClassifyRain == {0, 1, 100, 101}

Restrict(f, K) == [k \in K |-> f[k]]

ClassifyTables ==
    {NoneDF}
      \cup UNION { { DF(Restrict(WeatherTable(t, r).data, cols)) :
                       t \in [1..n -> ClassifyTmax],
                       r \in [1..n -> ClassifyRain],
                       cols \in { {"date", "tmax", "tmin", "rain"}, {"date", "tmax"},
                                  {"date", "rain"}, {} } } :
                   n \in 0..MaxRows }

RunDefaults ==
    /\ use_auto_loc = FALSE
    /\ loc = Unresolved
    /\ manual_entry = TRUE
    /\ lat = DEFAULT_LAT
    /\ lon = DEFAULT_LON
    /\ region = "My Farm"
    /\ outcome = [f \in Fetches |-> "pending"]
    /\ attempted = {}
    /\ weather_data = NonePayload
    /\ forecast_data = NonePayload
    /\ report = <<>>
    /\ reportCalls = 0

InitExtremes ==
    /\ pc = "extremes"
    /\ RunDefaults
    /\ weather_df \in ClassifyTables
    /\ forecast_df = NoneDF
    /\ flood_data = NonePayload
    /\ extremes = NoDict

SpecExtremes == InitExtremes /\ [][AnalyzeExtremes]_vars

----------------------------------------------------------------------------
(* generate_report over bounded inputs *)

CropTmax == {24, 26}
CropRain == {4, 6}
DischargeItems == {Num(0), Num(2000), Num(2001), Num(5000), Num(5001), Null}

CropTables ==
    {NoneDF}
      \cup UNION { { WeatherTable(t, r) : t \in [1..n -> CropTmax], r \in [1..n -> CropRain] } :
                   n \in 0..MaxCropRows }

SomeTables ==
    { NoneDF, WeatherTable(<<>>, <<>>), WeatherTable(<<26>>, <<6>>),
      WeatherTable(<<41, 38, 20>>, <<0, 120, 2>>), WeatherTable(<<41>>, <<0>>) }

SomeForecasts == { NoneDF, WeatherTable(<<>>, <<>>), WeatherTable(<<30, 31>>, <<12, 0>>) }

ExtremesInputs ==
    { Restrict(ExtremesDict(h, d, f), K) :
        h \in {HEAT_NOTE, HEAT_NOTE + 1},
        d \in {DROUGHT_NOTE, DROUGHT_NOTE + 1},
        f \in {DRAINAGE_NOTE, DRAINAGE_NOTE + 1},
        K \in SUBSET {"heatwave_days", "drought_days", "flood_days"} }

SomeExtremes == { ExtremesDict(0, 0, 0), ExtremesDict(4, 11, 3), ExtremesDict(1, 1, 1) }

FloodInputs ==
    { NonePayload,
      EmptyPayload,
      Payload({"error"}, NO_MODEL, NotADict),
      Payload({"error"}, "Flood API failed: timeout", NotADict),
      Payload({"latitude"}, "", NotADict),
      Payload({"latitude", "daily"}, "", NotADict),
      Payload({"latitude", "daily"}, "", Dict(Without(FloodDaily(<<Num(100)>>), "river_discharge"))),
      Payload({"latitude", "daily"}, "", Dict([FloodDaily(<<>>) EXCEPT !["river_discharge"] = Scalar])) }
      \cup { Payload({"latitude", "daily"}, "", Dict(FloodDaily(items))) :
               items \in SeqsUpTo(DischargeItems, MaxDischarge) }

SomeFloods ==
    { NonePayload,
      Payload({"error"}, NO_MODEL, NotADict),
      Payload({"daily"}, "", Dict(FloodDaily(<<Num(100), Num(200), Num(5200)>>))),
      Payload({"daily"}, "", Dict(FloodDaily(<<Num(1500)>>))),
      Payload({"daily"}, "", Dict(FloodDaily(<<>>))) }

ReportInputs(W, F, E, FD) ==
    /\ weather_df \in W
    /\ forecast_df \in F
    /\ extremes \in E
    /\ flood_data \in FD

InitReport ==
    /\ pc = "report"
    /\ RunDefaults
    /\ \/ ReportInputs(SomeTables, SomeForecasts, SomeExtremes, FloodInputs)
       \/ ReportInputs(CropTables, SomeForecasts, SomeExtremes, SomeFloods)
       \/ ReportInputs(SomeTables, SomeForecasts, ExtremesInputs, SomeFloods)

SpecReport == InitReport /\ [][GenerateReport]_vars

----------------------------------------------------------------------------
(* Properties *)

CountTag(t) == Cardinality({i \in 1..Len(report) : report[i].tag = t})
HasTag(t) == CountTag(t) > 0

Ended == pc \in {"done", "aborted"}
FetchFailures == {"timeout", "not_found", "http_error", "bad_json"}

TierTags == {"flood_high", "flood_moderate", "flood_none"}
FloodTags == TierTags \cup {"flood_title", "flood_avg", "flood_max", "blank"}
AdviceTags == {"advice_irrigation", "advice_heat", "advice_drainage"}

NonEmptyTable(df) == ~df.isNone /\ Columns(df) # {} /\ NRows(df) > 0

\* the fetch the script made last
LastFetch ==
    IF outcome["flood"] # "pending" THEN "flood"
    ELSE IF outcome["forecast"] # "pending" THEN "forecast"
    ELSE "weather"

\* C1: in every triggered run, whatever the three fetches meet, a failed fetch
\* is followed by the next step of the script (the script never stops right
\* after a fetch that failed), generate_report is never called before all three
\* outcomes are known, and by the end of the run all three fetches have been
\* attempted and generate_report has been called exactly once.
C1_ReportOnceAfterAllFetches ==
    /\ pc = "aborted" => outcome[LastFetch] \notin FetchFailures
    /\ reportCalls <= 1
    /\ reportCalls = 1 => \A f \in Fetches : outcome[f] # "pending"
    /\ Ended =>
         /\ {c.fetch : c \in attempted} = Fetches
         /\ reportCalls = 1

\* C2: a fetched weather, forecast or flood payload that lacks "daily", lacks
\* a field array or has arrays of different lengths never ends the script: the
\* table built from it is the empty table and the run goes on to the report.
C2_MalformedPayloadGivesEmptyTable ==
    /\ pc # "aborted"
    /\ (pc \notin {"start", "idle", "fetch_weather", "weather_table"}
          /\ Truthy(weather_data) /\ FrameRaises(weather_data, WeatherKeys))
         => (weather_df.isNone \/ Empty(weather_df))
    /\ (pc \in {"extremes", "fetch_flood", "flood_table", "report", "done"}
          /\ Truthy(forecast_data) /\ FrameRaises(forecast_data, WeatherKeys))
         => (forecast_df.isNone \/ Empty(forecast_df))

\* C3: for a table with tmax and rain columns, analyze_extremes returns the
\* number of rows with tmax > 40, with rain < 1 and with rain > 100 (all
\* strict); for None, an empty table or a table lacking tmax or rain it
\* returns three zeros.
C3_ExactCounts ==
    pc = "fetch_flood" =>
      /\ DOMAIN extremes = {"heatwave_days", "drought_days", "flood_days"}
      /\ IF ~weather_df.isNone /\ {"tmax", "rain"} \subseteq Columns(weather_df)
         THEN LET tmax == weather_df.data["tmax"]
                  rain == weather_df.data["rain"]
              IN  /\ extremes["heatwave_days"]
                       = Cardinality({i \in 1..Len(tmax) : tmax[i] > 40})
                  /\ extremes["drought_days"]
                       = Cardinality({i \in 1..Len(rain) : rain[i] < 1})
                  /\ extremes["flood_days"]
                       = Cardinality({i \in 1..Len(rain) : rain[i] > 100})
         ELSE \A k \in DOMAIN extremes : extremes[k] = 0

\* C3 witness: a table with a 40 degree day, a 41 degree day, a 1 mm day and a
\* 100 mm day has been classified: one heatwave day, no drought or heavy rain.
C3_Witness ==
    /\ pc = "fetch_flood"
    /\ ~weather_df.isNone
    /\ {"tmax", "rain"} \subseteq Columns(weather_df)
    /\ weather_df.data["tmax"] = <<40, 41>>
    /\ weather_df.data["rain"] = <<1, 100>>
    /\ extremes = ExtremesDict(1, 0, 0)

UsableDischarge(fd) ==
    /\ Truthy(fd)
    /\ "daily" \in fd.keys
    /\ fd.daily.isDict
    /\ "river_discharge" \in DOMAIN fd.daily.data
    /\ fd.daily.data["river_discharge"].isList
    /\ fd.daily.data["river_discharge"].items # <<>>
    /\ \A i \in 1..Len(fd.daily.data["river_discharge"].items) :
         fd.daily.data["river_discharge"].items[i].num

\* the largest discharge value of a usable series
MaxDischargeOf(fd) ==
    LET items == fd.daily.data["river_discharge"].items
    IN  CHOOSE m \in {items[i].v : i \in 1..Len(items)} :
          \A i \in 1..Len(items) : items[i].v <= m

\* C4: a flood section built from a usable discharge series has exactly one
\* tier line: high iff the maximum M > 5000, moderate iff 2000 < M <= 5000,
\* no significant risk iff M <= 2000.
C4_FloodTierByMax ==
    (pc = "done" /\ UsableDischarge(flood_data)) =>
      LET M == MaxDischargeOf(flood_data)
      IN  /\ CountTag("flood_high") + CountTag("flood_moderate") + CountTag("flood_none") = 1
          /\ HasTag("flood_high") <=> M > 5000
          /\ HasTag("flood_moderate") <=> (M > 2000 /\ M <= 5000)
          /\ HasTag("flood_none") <=> M <= 2000

\* C4 witness: a report for a series whose maximum is exactly 5000 carries the
\* moderate-risk line.
C4_Witness ==
    /\ pc = "done"
    /\ UsableDischarge(flood_data)
    /\ MaxDischargeOf(flood_data) = 5000
    /\ HasTag("flood_moderate")

RECURSIVE DropTag(_, _)
DropTag(s, t) ==
    IF s = <<>> THEN <<>>
    ELSE IF Head(s).tag = t THEN DropTag(Tail(s), t)
    ELSE <<Head(s)>> \o DropTag(Tail(s), t)

\* C5: when flood_data has a "daily" entry whose discharge values cannot be
\* extracted or aggregated, the report has exactly one "Data unavailable" line,
\* none of the regular flood lines, and is otherwise the report of the same
\* inputs without a flood payload.
C5_UnusableDischargeDegrades ==
    (pc = "done" /\ Truthy(flood_data) /\ "daily" \in flood_data.keys
       /\ ~UsableDischarge(flood_data)) =>
      /\ CountTag("flood_unavailable") = 1
      /\ \A t \in FloodTags : ~HasTag(t)
      /\ DropTag(report, "flood_unavailable")
           = generate_report(region, START_DATE, END_DATE, weather_df,
                             forecast_df, extremes, NonePayload)

\* C5 witness: a report has been generated for a payload whose discharge list
\* holds a non-numeric entry, next to a non-empty historical table.
C5_Witness ==
    /\ pc = "done"
    /\ Truthy(flood_data) /\ "daily" \in flood_data.keys
    /\ flood_data.daily.isDict
    /\ "river_discharge" \in DOMAIN flood_data.daily.data
    /\ flood_data.daily.data["river_discharge"].items = <<Num(5001), Null>>
    /\ NonEmptyTable(weather_df)
    /\ HasTag("flood_unavailable")

\* C6: for a non-empty historical table the report has exactly one crop line,
\* "Rice" iff mean(rain) > 5 and mean(tmax) > 25 (both strict), else "Wheat".
C6_CropByMeans ==
    (pc = "done" /\ NonEmptyTable(weather_df)) =>
      LET n == NRows(weather_df)
          rice == /\ SumSeq(weather_df.data["rain"]) > 5 * n
                  /\ SumSeq(weather_df.data["tmax"]) > 25 * n
      IN  /\ CountTag("crop") = 1
          /\ \A i \in 1..Len(report) :
               report[i].tag = "crop" =>
                 report[i].txt = (IF rice THEN "Rice" ELSE "Wheat")

\* C6 witness: mean rain exactly 5 with mean tmax 26 gives Wheat.
C6_Witness ==
    /\ pc = "done"
    /\ NonEmptyTable(weather_df)
    /\ weather_df.data["rain"] = <<4, 6>>
    /\ weather_df.data["tmax"] = <<26, 26>>
    /\ \E i \in 1..Len(report) : report[i].tag = "crop" /\ report[i].txt = "Wheat"

SectionOf(tag) ==
    CASE tag \in {"title", "region", "period"} -> 1
      [] tag \in {"history_title", "history_avg_temp", "history_total_rain"} -> 2
      [] tag \in {"forecast_title", "forecast_avg_temp", "forecast_total_rain"} -> 3
      [] tag \in {"extremes_title", "heatwave_days", "drought_days", "heavy_rain_days"} -> 4
      [] tag \in FloodTags \cup {"flood_unavailable"} -> 5
      [] tag = "crop" -> 6
      [] tag \in AdviceTags -> 7

\* C7: every report has the header and the extreme-event summary with its three
\* count lines; the historical summary and the crop line are there iff the
\* historical table is present and non-empty, the forecast summary iff the
\* forecast table is; sections come in the order header, historical, forecast,
\* extreme events, flood, crop, advisory notes.
C7_SectionsAndOrder ==
    pc = "done" =>
      /\ \A t \in {"title", "region", "period", "extremes_title",
                   "heatwave_days", "drought_days", "heavy_rain_days"} :
           CountTag(t) = 1
      /\ \A t \in {"history_title", "history_avg_temp", "history_total_rain", "crop"} :
           CountTag(t) = (IF NonEmptyTable(weather_df) THEN 1 ELSE 0)
      /\ \A t \in {"forecast_title", "forecast_avg_temp", "forecast_total_rain"} :
           CountTag(t) = (IF NonEmptyTable(forecast_df) THEN 1 ELSE 0)
      /\ \A i, j \in 1..Len(report) :
           i < j => SectionOf(report[i].tag) <= SectionOf(report[j].tag)

\* C7 witness: a report with all seven sections.
C7_Witness ==
    /\ pc = "done"
    /\ {SectionOf(report[i].tag) : i \in 1..Len(report)} = 1..7

\* C8: a 404 from the flood endpoint gives the "no flood model" outcome, any
\* other flood-fetch failure gives a different error outcome; neither ends the
\* script, and the report of such a run has no flood-risk section.
C8_NoModelDistinguished ==
    /\ outcome["flood"] = "not_found" =>
         ("error" \in flood_data.keys /\ flood_data.error = NO_MODEL)
    /\ outcome["flood"] \in FetchFailures \ {"not_found"} =>
         ("error" \in flood_data.keys /\ flood_data.error # NO_MODEL)
    /\ outcome["flood"] \in FetchFailures =>
         /\ pc \in {"flood_table", "report", "done"}
         /\ pc = "done" =>
              /\ reportCalls = 1
              /\ \A t \in FloodTags \cup {"flood_unavailable"} : ~HasTag(t)

\* C8 witness: a run whose flood fetch met a 404 has produced its report.
C8_Witness ==
    /\ pc = "done"
    /\ outcome["flood"] = "not_found"
    /\ flood_data.error = NO_MODEL
    /\ reportCalls = 1

Count(k) == IF k \in DOMAIN extremes THEN extremes[k] ELSE 0

\* C9: the irrigation note is in the report iff drought_days > 10, the heat
\* note iff heatwave_days > 3, the drainage note iff flood_days > 2 (a missing
\* count is 0); the notes are the last lines of the report, in the order
\* irrigation, heat, drainage.
C9_AdvisoryNotes ==
    pc = "done" =>
      /\ CountTag("advice_irrigation") = (IF Count("drought_days") > 10 THEN 1 ELSE 0)
      /\ CountTag("advice_heat") = (IF Count("heatwave_days") > 3 THEN 1 ELSE 0)
      /\ CountTag("advice_drainage") = (IF Count("flood_days") > 2 THEN 1 ELSE 0)
      /\ \A i, j \in 1..Len(report) :
           (i < j /\ report[i].tag \in AdviceTags) =>
             /\ report[j].tag \in AdviceTags
             /\ ~(report[i].tag = "advice_heat" /\ report[j].tag = "advice_irrigation")
             /\ ~(report[i].tag = "advice_drainage" /\ report[j].tag # "advice_drainage")

\* C9 witness: drought 11, heatwave exactly 3 and no flood_days count: only the
\* irrigation note, as the last line.
C9_Witness ==
    /\ pc = "done"
    /\ DOMAIN extremes = {"heatwave_days", "drought_days"}
    /\ extremes["drought_days"] = 11
    /\ extremes["heatwave_days"] = 3
    /\ report[Len(report)].tag = "advice_irrigation"
    /\ ~HasTag("advice_heat")

\* C10: with automatic location selected, manual entry is used iff the
\* resolver returned Unresolved; a resolved pair, a zero latitude or longitude
\* included, is the pair of the run and of all three fetches.
C10_ResolvedPairIsUsed ==
    (pc # "start" /\ use_auto_loc) =>
      /\ manual_entry <=> ~loc.resolved
      /\ loc.resolved =>
           /\ lat = loc.lat /\ lon = loc.lon
           /\ \A c \in attempted : c.lat = loc.lat /\ c.lon = loc.lon

====
